---- MODULE Spec2Model ----
(***************************************************************************)
(* Model of src/app.py: the reference-table loader (load_valid_values),    *)
(* the dependency grouper (build_dependency_groups), the row generator     *)
(* (generate_data) and the caller (main) with the sink (write_outputs).    *)
(*                                                                         *)
(* A Python dict is a function together with the order of its keys where   *)
(* the code iterates it; a row (row_data) is a sequence of <<key, value>>  *)
(* pairs in insertion order.  random.choice, the Faker generators and the  *)
(* iteration order of a set of strings are nondeterministic choices.       *)
(***************************************************************************)
EXTENDS Integers, Sequences, FiniteSets, TLC

\* Python's None (JSON null) and the text str() makes of it.
None == "<None>"

\* "valid_values_csv_column_index": null
NoIndex == 0 - 1

\* The retry ceiling of the three validation loops.
MaxRetries == 10

\* Largest file_size (requested row count) explored.
MaxRows == 2

(***************************************************************************)
(* Environment: the file system and the Faker library.                     *)
(***************************************************************************)

\* Files that exist, with their CSV records (header first).
FileSystem ==
    [ref_csv   |-> << <<"country", "city">>, <<"US", "NYC">>, <<"FR", "Paris">> >>,
     other_csv |-> << <<"country", "city">>, <<"DE", "Bonn">> >>,
     empty_csv |-> << <<"country", "city">> >>,
     blank_csv |-> << >>]

\* A path that does not exist.
MissingCsv == "missing_csv"

\* Values a Faker generator can return, per method name; a data_type that
\* is no key here is no attribute of Faker.
FakerMethods == [first_name |-> {"Al", "Bo"}]

(***************************************************************************)
(* Dict and list helpers.                                                  *)
(***************************************************************************)

EmptyDict == [k \in {} |-> None]

DictPut(d, k, v) == [x \in (DOMAIN d) \cup {k} |-> IF x = k THEN v ELSE d[x]]

\* row_data[key] = value: an existing key keeps its place, a new key is
\* appended.
RowPut(row, key, val) ==
    IF \E i \in 1..Len(row) : row[i][1] = key
    THEN [i \in 1..Len(row) |-> IF row[i][1] = key THEN <<key, val>> ELSE row[i]]
    ELSE Append(row, <<key, val>>)

RowKeys(row) == [i \in 1..Len(row) |-> row[i][1]]

RowKeySet(row) == {row[i][1] : i \in 1..Len(row)}

RowGet(row, key) == row[CHOOSE i \in 1..Len(row) : row[i][1] = key][2]

SeqSet(s) == {s[i] : i \in 1..Len(s)}

(***************************************************************************)
(* load_valid_values and validate_value.                                   *)
(***************************************************************************)

PathExists(csv_path) == csv_path \in DOMAIN FileSystem

\* csv.reader rows after next(reader, None) skipped the header.
SkipHeader(records) == IF records = << >> THEN << >> ELSE Tail(records)

\* The outcome of load_valid_values: the rows, or the error raised.
\* (LoadValidValuesUnchecked: a loader without its two checks.)
LoadValidValuesUnchecked(csv_path) ==
    IF ~PathExists(csv_path) THEN [error |-> "none", rows |-> << >>]
    ELSE [error |-> "none", rows |-> SkipHeader(FileSystem[csv_path])]
LoadValidValues(csv_path) ==
    IF ~PathExists(csv_path) THEN [error |-> "SourceNotFound", rows |-> << >>]
    ELSE LET rows == SkipHeader(FileSystem[csv_path])
         IN  IF rows = << >> THEN [error |-> "EmptySource", rows |-> << >>]
             ELSE [error |-> "none", rows |-> rows]

Str(value) == IF value = None THEN "None" ELSE value

\* The strings a pattern of the model fully matches (re.fullmatch).
Language(pattern) ==
    CASE pattern = "US"      -> {"US"}
      [] pattern = "Paris"   -> {"Paris"}
      [] pattern = "NYC"     -> {"NYC"}
      [] pattern = "Al"      -> {"Al"}
      [] pattern = "US|FR"   -> {"US", "FR"}
      [] OTHER               -> {}

ReFullmatch(pattern, text) == text \in Language(pattern)

validate_value(value, pattern) ==
    IF pattern = None THEN TRUE ELSE ReFullmatch(pattern, Str(value))

(***************************************************************************)
(* Column specifications.                                                  *)
(***************************************************************************)

Col(name, position, data_type, csv, index, link, regex) ==
    [name |-> name, position |-> position, data_type |-> data_type,
     valid_values_csv |-> csv, valid_values_csv_column_index |-> index,
     same_valid_value_row_as_column |-> link, validation_regex |-> regex]

\* Python truthiness of an optional string.
Truthy(x) == x # None /\ x # ""

\* sorted(columns, key=lambda c: c["position"]): a stable insertion sort.
RECURSIVE InsertByPosition(_, _)
InsertByPosition(col, sorted) ==
    IF sorted = << >> THEN <<col>>
    ELSE IF Head(sorted).position <= col.position
         THEN <<Head(sorted)>> \o InsertByPosition(col, Tail(sorted))
         ELSE <<col>> \o sorted

RECURSIVE SortedByPosition(_)
SortedByPosition(cols) ==
    IF cols = << >> THEN << >>
    ELSE InsertByPosition(cols[Len(cols)],
                          SortedByPosition(SubSeq(cols, 1, Len(cols) - 1)))

(***************************************************************************)
(* Configurations explored.                                                *)
(***************************************************************************)

Names == {"a", "b", "c"}

\* What a column generates from: csv, index, data_type, regex.
Kind(csv, index, data_type, regex) ==
    [csv |-> csv, index |-> index, data_type |-> data_type, regex |-> regex]

RefKinds ==
    {Kind("ref_csv", i, None, r) : i \in {0, 1}, r \in {None, "US", "Paris"}}

OtherKinds ==
    {Kind(None, NoIndex, "first_name", None), Kind(None, NoIndex, "first_name", "Al"),
     Kind(None, NoIndex, "first_name", "US"),
     Kind(None, NoIndex, "no_such_method", None),
     Kind(None, NoIndex, None, None), Kind(None, NoIndex, None, "US"),
     Kind("other_csv", 0, None, None), Kind(MissingCsv, 0, None, None),
     Kind("empty_csv", 0, None, None), Kind("blank_csv", 0, None, None)}

\* Declared order a, b, c; the positions either keep it or rotate it.
Positions == {[a |-> 1, b |-> 2, c |-> 3], [a |-> 2, b |-> 3, c |-> 1]}

\* A column links to no column or to another column; c may also link to
\* itself or to "z", a name that is no column.
LinkMaps ==
    {l \in [Names -> Names \cup {None, "z"}] :
        /\ l["a"] \in {None, "b", "c"}
        /\ l["b"] \in {None, "a", "c"}}

MakeColumns(kind, link, pos) ==
    [i \in 1..3 |->
        LET n == CASE i = 1 -> "a" [] i = 2 -> "b" [] OTHER -> "c"
        IN  Col(n, pos[n], kind[n].data_type, kind[n].csv, kind[n].index,
                link[n], kind[n].regex)]

\* Reference columns under every link relation: a reads cell 0 and b reads
\* cell 1 of ref_csv, with no pattern, a pattern some rows match or (b) a
\* pattern no row matches; c reads ref_csv or is unconfigured.
GroupConfigs ==
    {MakeColumns(kind, link, pos) :
        kind \in {k \in [Names -> RefKinds \cup OtherKinds] :
                     /\ k["a"] \in RefKinds /\ k["a"].index = 0
                     /\ k["a"].regex \in {None, "US"}
                     /\ k["b"] \in RefKinds /\ k["b"].index = 1
                     /\ k["c"] \in {Kind("ref_csv", 1, None, None),
                                    Kind(None, NoIndex, None, None)}},
        link \in LinkMaps,
        pos \in Positions}

\* Unlinked columns: a is any reference column, b a generator column with a
\* pattern, c a column of any kind.
SingleConfigs ==
    {MakeColumns(kind, [n \in Names |-> None], pos) :
        kind \in {k \in [Names -> RefKinds \cup OtherKinds] :
                     /\ k["a"] \in RefKinds
                     /\ k["b"] = Kind(None, NoIndex, "first_name", "Al")},
        pos \in Positions}

Configs == GroupConfigs \cup SingleConfigs

\* config["output_files"]: format tag and destination path, in key order.
OutputFiles == << <<"csv", "s3://bucket/data.csv">>, <<"json", "output/data.json">> >>

(***************************************************************************)
(* State.                                                                  *)
(***************************************************************************)

VARIABLES
    config,            \* the configuration: file_size and columns as declared
    pc,                \* the statement about to run
    outcome,           \* "running", "returned", or the error raised
    columns,           \* generate_data: the columns sorted by position
    load_i,            \* index of the preload loop over columns
    valid_csv_cache,   \* csv path -> rows
    load_log,          \* the paths load_valid_values was called with, in order
    graph,             \* build_dependency_groups: node -> set of neighbours
    graph_keys,        \* the keys of graph in insertion order
    visited,
    groups,            \* group id -> list of column names
    col_to_group,      \* column name -> group id
    group_id,
    node_i,            \* index of the loop over graph
    current_group,
    dfs_stack,         \* the active calls of dfs: node and neighbours left
    generated_rows,
    row_data,
    processed_groups,
    col_i,             \* index of the loop over columns in one row
    grp,
    member_i,          \* index of the loop over group_cols
    chosen_row,
    value,
    retries,
    attempts,          \* validate_value calls of the current column's loop
    step_attempts,     \* validate_value calls of the current group step
    sampled,           \* a reference row or a generator value has been drawn
    data,              \* main: the rows generate_data returned
    out_i,             \* write_outputs: index of the loop over output_files
    written            \* write_outputs: destinations written

grouper_vars == <<graph, graph_keys, visited, groups, col_to_group, group_id,
                  node_i, current_group, dfs_stack>>

loader_vars == <<load_i, valid_csv_cache, load_log>>

row_vars == <<generated_rows, row_data, processed_groups, col_i, grp, member_i>>

draw_vars == <<chosen_row, value, retries, attempts, step_attempts, sampled>>

sink_vars == <<data, out_i, written>>

vars == <<config, pc, outcome, columns, loader_vars, grouper_vars, row_vars,
          draw_vars, sink_vars>>

InitRest ==
    /\ outcome = "running"
    /\ load_i = 1
    /\ valid_csv_cache = EmptyDict
    /\ load_log = << >>
    /\ graph = EmptyDict
    /\ graph_keys = << >>
    /\ visited = {}
    /\ groups = EmptyDict
    /\ col_to_group = EmptyDict
    /\ group_id = 0
    /\ node_i = 1
    /\ current_group = << >>
    /\ dfs_stack = << >>
    /\ generated_rows = << >>
    /\ row_data = << >>
    /\ processed_groups = {}
    /\ col_i = 1
    /\ grp = 0
    /\ member_i = 1
    /\ chosen_row = << >>
    /\ value = None
    /\ retries = 0
    /\ attempts = 0
    /\ step_attempts = 0
    /\ sampled = FALSE
    /\ data = << >>
    /\ out_i = 1
    /\ written = {}

\* main() about to call generate_data(config).
Init ==
    /\ config \in [file_size : 0..MaxRows, columns : Configs]
    /\ pc = "generate_data"
    /\ columns = << >>
    /\ InitRest

\* An exception leaves generate_data and main: nothing is returned.
\* (RaiseCaughtByMain: a main that catches the error and goes on to write.)
RaiseCaughtByMain(error) ==
    /\ outcome' = error
    /\ pc' = "write_outputs"
Raise(error) ==
    /\ outcome' = error
    /\ pc' = "raised"

(***************************************************************************)
(* generate_data, lines 93-103: sort and preload.                          *)
(***************************************************************************)

SortColumns ==
    /\ pc = "generate_data"
    /\ columns' = SortedByPosition(config.columns)
    /\ pc' = "preload"
    /\ UNCHANGED <<config, outcome, loader_vars, grouper_vars, row_vars,
                   draw_vars, sink_vars>>

\* Line 102: if csv_path and csv_path not in valid_csv_cache.
\* (NeedsLoadAlways: the cache is not consulted.)
NeedsLoadAlways(csv_path) == Truthy(csv_path)
NeedsLoad(csv_path) ==
    Truthy(csv_path) /\ csv_path \notin DOMAIN valid_csv_cache

Preload ==
    /\ pc = "preload"
    /\ load_i <= Len(columns)
    /\ LET csv_path == columns[load_i].valid_values_csv
       IN  IF NeedsLoad(csv_path)
           THEN LET loaded == LoadValidValues(csv_path)
                IN  /\ load_log' = Append(load_log, csv_path)
                    /\ IF loaded.error # "none"
                       THEN /\ Raise(loaded.error)
                            /\ UNCHANGED <<load_i, valid_csv_cache>>
                       ELSE /\ valid_csv_cache' =
                                   DictPut(valid_csv_cache, csv_path, loaded.rows)
                            /\ load_i' = load_i + 1
                            /\ UNCHANGED <<pc, outcome>>
           ELSE /\ load_i' = load_i + 1
                /\ UNCHANGED <<pc, outcome, valid_csv_cache, load_log>>
    /\ UNCHANGED <<config, columns, grouper_vars, row_vars, draw_vars, sink_vars>>

PreloadDone ==
    /\ pc = "preload"
    /\ load_i > Len(columns)
    /\ pc' = "build_graph"
    /\ UNCHANGED <<config, outcome, columns, loader_vars, grouper_vars,
                   row_vars, draw_vars, sink_vars>>


(***************************************************************************)
(* build_dependency_groups, lines 46-86.                                   *)
(***************************************************************************)

\* graph[u].add(v) on a defaultdict(set): a new key goes last.
AddEdge(g, u, v) ==
    [keys |-> IF u \in SeqSet(g.keys) THEN g.keys ELSE Append(g.keys, u),
     adj  |-> DictPut(g.adj, u,
                      (IF u \in DOMAIN g.adj THEN g.adj[u] ELSE {}) \cup {v})]

\* Lines 55-62: the undirected graph of the links of cols[1..n].
RECURSIVE LinkGraph(_, _)
LinkGraph(cols, n) ==
    IF n = 0 THEN [keys |-> << >>, adj |-> EmptyDict]
    ELSE LET g        == LinkGraph(cols, n - 1)
             col_name == cols[n].name
             related  == cols[n].same_valid_value_row_as_column
         IN  IF Truthy(related)
             THEN AddEdge(AddEdge(g, col_name, related), related, col_name)
             ELSE g

BuildGraph ==
    /\ pc = "build_graph"
    /\ LET g == LinkGraph(columns, Len(columns))
       IN  /\ graph' = g.adj
           /\ graph_keys' = g.keys
    /\ visited' = {}
    /\ groups' = EmptyDict
    /\ col_to_group' = EmptyDict
    /\ group_id' = 0
    /\ node_i' = 1
    /\ pc' = "components"
    /\ UNCHANGED <<config, outcome, columns, loader_vars, current_group,
                   dfs_stack, row_vars, draw_vars, sink_vars>>

\* dfs(node, current_group), lines 71-72: enter a call.
\* (FrameWithoutNeighbors: a dfs that never descends.)
FrameWithoutNeighbors(node) == [node |-> node, todo |-> {}]
Frame(node) == [node |-> node, todo |-> graph[node]]

\* Lines 77-80: the next node of graph; an unvisited one starts a component.
NextNode ==
    /\ pc = "components"
    /\ node_i <= Len(graph_keys)
    /\ LET node == graph_keys[node_i]
       IN  IF node \in visited
           THEN /\ node_i' = node_i + 1
                /\ UNCHANGED <<pc, visited, current_group, dfs_stack>>
           ELSE /\ visited' = visited \cup {node}
                /\ current_group' = <<node>>
                /\ dfs_stack' = <<Frame(node)>>
                /\ pc' = "dfs"
                /\ UNCHANGED node_i
    /\ UNCHANGED <<config, outcome, columns, loader_vars, graph, graph_keys,
                   groups, col_to_group, group_id, row_vars, draw_vars, sink_vars>>

\* Lines 73-75: the loop over graph[node] takes its next neighbour, in the
\* iteration order of the set, and descends into an unvisited one.
DfsNeighbor ==
    /\ pc = "dfs"
    /\ LET top == dfs_stack[Len(dfs_stack)]
       IN  /\ top.todo # {}
           /\ \E neighbor \in top.todo :
                LET rest == [dfs_stack EXCEPT ![Len(dfs_stack)].todo = top.todo \ {neighbor}]
                IN  IF neighbor \notin visited
                    THEN /\ visited' = visited \cup {neighbor}
                         /\ current_group' = Append(current_group, neighbor)
                         /\ dfs_stack' = Append(rest, Frame(neighbor))
                    ELSE /\ dfs_stack' = rest
                         /\ UNCHANGED <<visited, current_group>>
    /\ UNCHANGED <<config, pc, outcome, columns, loader_vars, graph, graph_keys,
                   groups, col_to_group, group_id, node_i, row_vars, draw_vars,
                   sink_vars>>

\* col_to_group[col_name] = group_id for every member, lines 81-82.
\* (AssignGroupFirstOnly: only the node that started the component is mapped.)
AssignGroupFirstOnly(c2g, members, gid) ==
    [x \in (DOMAIN c2g) \cup {members[1]} |->
        IF x = members[1] THEN gid ELSE c2g[x]]
AssignGroup(c2g, members, gid) ==
    [x \in (DOMAIN c2g) \cup SeqSet(members) |->
        IF x \in SeqSet(members) THEN gid ELSE c2g[x]]

\* A call of dfs returns; when the outermost returns, lines 81-84 record
\* the component.
DfsReturn ==
    /\ pc = "dfs"
    /\ dfs_stack[Len(dfs_stack)].todo = {}
    /\ dfs_stack' = SubSeq(dfs_stack, 1, Len(dfs_stack) - 1)
    /\ IF Len(dfs_stack) = 1
       THEN /\ col_to_group' = AssignGroup(col_to_group, current_group, group_id)
            /\ groups' = DictPut(groups, group_id, current_group)
            /\ group_id' = group_id + 1
            /\ node_i' = node_i + 1
            /\ pc' = "components"
       ELSE UNCHANGED <<col_to_group, groups, group_id, node_i, pc>>
    /\ UNCHANGED <<config, outcome, columns, loader_vars, graph, graph_keys,
                   visited, current_group, row_vars, draw_vars, sink_vars>>

\* Line 86: return col_to_group, groups.
GroupsReturn ==
    /\ pc = "components"
    /\ node_i > Len(graph_keys)
    /\ pc' = "grouped"
    /\ UNCHANGED <<config, outcome, columns, loader_vars, grouper_vars,
                   row_vars, draw_vars, sink_vars>>


(***************************************************************************)
(* generate_data, lines 109-183: the row loop.                             *)
(*                                                                         *)
(* Every configuration explored gives a column that names a csv an index   *)
(* inside the rows of that csv, so chosen_row[col_index] raises nothing.   *)
(***************************************************************************)

\* {col["name"]: col for col in columns}: a later column of a name wins.
ColConfigByName(cols) ==
    [n \in {cols[i].name : i \in 1..Len(cols)} |->
        cols[CHOOSE i \in 1..Len(cols) :
                /\ cols[i].name = n
                /\ \A j \in (i + 1)..Len(cols) : cols[j].name # n]]

col_config_by_name == ColConfigByName(columns)

num_rows == config.file_size

\* chosen_row[col_index], col_index counted from zero.
Cell(row, col_index) == row[col_index + 1]

\* The condition of the three validation loops:
\* not validate_value(value, regex) and retries < 10.
\* (LoopContinuesOnceMore: the condition written retries <= 10.)
LoopContinuesOnceMore(val, regex, n) == ~validate_value(val, regex) /\ n <= MaxRetries
\* (LoopContinuesUnbounded: the condition without its ceiling.)
LoopContinuesUnbounded(val, regex, n) == ~validate_value(val, regex)
LoopContinues(val, regex, n) == ~validate_value(val, regex) /\ n < MaxRetries

\* The check after the loop: if retries >= 10: raise.
\* (ExhaustedOnlyAbove: the check written retries > 10.)
ExhaustedOnlyAbove(n) == n > MaxRetries
Exhausted(n) == n >= MaxRetries

\* Lines 109-111.
BeginRows ==
    /\ pc = "grouped"
    /\ generated_rows' = << >>
    /\ pc' = "rows"
    /\ UNCHANGED <<config, outcome, columns, loader_vars, grouper_vars, row_data,
                   processed_groups, col_i, grp, member_i, draw_vars, sink_vars>>

\* for _ in range(num_rows): another iteration follows n_done of them.
\* (RowsRemainOneMore: the loop with one iteration too many.)
RowsRemainOneMore(n_done) == n_done <= num_rows
RowsRemain(n_done) == n_done < num_rows

\* Lines 113-115.
StartRow ==
    /\ pc = "rows"
    /\ RowsRemain(Len(generated_rows))
    /\ row_data' = << >>
    /\ processed_groups' = {}
    /\ col_i' = 1
    /\ pc' = "col"
    /\ UNCHANGED <<config, outcome, columns, loader_vars, grouper_vars,
                   generated_rows, grp, member_i, draw_vars, sink_vars>>

\* Line 183, and main's line 297: data = generate_data(config).
ReturnRows ==
    /\ pc = "rows"
    /\ ~RowsRemain(Len(generated_rows))
    /\ outcome' = "returned"
    /\ data' = generated_rows
    /\ pc' = "write_outputs"
    /\ UNCHANGED <<config, columns, loader_vars, grouper_vars, row_vars,
                   draw_vars, out_i, written>>

\* Line 181.
AppendRow ==
    /\ pc = "col"
    /\ col_i > Len(columns)
    /\ generated_rows' = Append(generated_rows, row_data)
    /\ pc' = "rows"
    /\ UNCHANGED <<config, outcome, columns, loader_vars, grouper_vars, row_data,
                   processed_groups, col_i, grp, member_i, draw_vars, sink_vars>>

InGroup(col) == col.name \in DOMAIN col_to_group

\* Lines 121-124: a column of a group already processed in this row.
SkipProcessedGroup ==
    /\ pc = "col"
    /\ col_i <= Len(columns)
    /\ InGroup(columns[col_i])
    /\ col_to_group[columns[col_i].name] \in processed_groups
    /\ col_i' = col_i + 1
    /\ UNCHANGED <<config, pc, outcome, columns, loader_vars, grouper_vars,
                   generated_rows, row_data, processed_groups, grp, member_i,
                   draw_vars, sink_vars>>

\* Lines 121-135: the first column of a group reached in this row checks the
\* group's csv files and picks one random row for the group.
BeginGroup ==
    /\ pc = "col"
    /\ col_i <= Len(columns)
    /\ InGroup(columns[col_i])
    /\ col_to_group[columns[col_i].name] \notin processed_groups
    /\ LET g          == col_to_group[columns[col_i].name]
           group_cols == groups[g]
           csv_files  == {col_config_by_name[name].valid_values_csv :
                             name \in SeqSet(group_cols)}
       IN  /\ grp' = g
           /\ IF \E name \in SeqSet(group_cols) : name \notin DOMAIN col_config_by_name
              THEN /\ Raise("KeyError")
                   /\ UNCHANGED <<member_i, draw_vars>>
              ELSE IF Cardinality(csv_files) # 1
              THEN /\ Raise("InconsistentGroupSource")
                   /\ UNCHANGED <<member_i, draw_vars>>
              ELSE LET valid_csv_file == CHOOSE f \in csv_files : TRUE
                   IN  IF valid_csv_file \notin DOMAIN valid_csv_cache
                       THEN /\ Raise("KeyError")
                            /\ UNCHANGED <<member_i, draw_vars>>
                       ELSE \E r \in 1..Len(valid_csv_cache[valid_csv_file]) :
                               /\ chosen_row' = valid_csv_cache[valid_csv_file][r]
                               /\ sampled' = TRUE
                               /\ step_attempts' = 0
                               /\ member_i' = 1
                               /\ pc' = "member"
                               /\ UNCHANGED <<outcome, value, retries, attempts>>
    /\ UNCHANGED <<config, columns, loader_vars, grouper_vars, generated_rows,
                   row_data, processed_groups, col_i, sink_vars>>

group_cols == groups[grp]

member_cfg == col_config_by_name[group_cols[member_i]]

group_rows == valid_csv_cache[member_cfg.valid_values_csv]

\* for name in group_cols, lines 136-140.
\* (MemberBeginOwnRow: every member draws a reference row of its own.)
MemberBeginOwnRow ==
    /\ pc = "member"
    /\ member_i <= Len(group_cols)
    /\ \E r \in 1..Len(group_rows) :
          /\ chosen_row' = group_rows[r]
          /\ value' = Cell(group_rows[r], member_cfg.valid_values_csv_column_index)
    /\ retries' = 0
    /\ attempts' = 0
    /\ pc' = "member_loop"
    /\ UNCHANGED <<config, outcome, columns, loader_vars, grouper_vars, row_vars,
                   step_attempts, sampled, sink_vars>>
MemberBegin ==
    /\ pc = "member"
    /\ member_i <= Len(group_cols)
    /\ value' = Cell(chosen_row, member_cfg.valid_values_csv_column_index)
    /\ retries' = 0
    /\ attempts' = 0
    /\ pc' = "member_loop"
    /\ UNCHANGED <<config, outcome, columns, loader_vars, grouper_vars, row_vars,
                   chosen_row, step_attempts, sampled, sink_vars>>

\* Lines 142-145: the value fails its pattern; a new row is drawn.
\* (MemberRetryRewrites: the members already written take the new row too.)
MemberRetryRewrites ==
    /\ pc = "member_loop"
    /\ LoopContinues(value, member_cfg.validation_regex, retries)
    /\ \E r \in 1..Len(group_rows) :
          /\ chosen_row' = group_rows[r]
          /\ value' = Cell(group_rows[r], member_cfg.valid_values_csv_column_index)
          /\ row_data' =
                [i \in 1..Len(row_data) |->
                    IF \E k \in 1..(member_i - 1) : group_cols[k] = row_data[i][1]
                    THEN <<row_data[i][1],
                           Cell(group_rows[r],
                                col_config_by_name[row_data[i][1]]
                                    .valid_values_csv_column_index)>>
                    ELSE row_data[i]]
    /\ retries' = retries + 1
    /\ attempts' = attempts + 1
    /\ step_attempts' = step_attempts + 1
    /\ UNCHANGED <<config, pc, outcome, columns, loader_vars, grouper_vars,
                   generated_rows, processed_groups, col_i, grp, member_i,
                   sampled, sink_vars>>
MemberRetry ==
    /\ pc = "member_loop"
    /\ LoopContinues(value, member_cfg.validation_regex, retries)
    /\ \E r \in 1..Len(group_rows) :
          /\ chosen_row' = group_rows[r]
          /\ value' = Cell(group_rows[r], member_cfg.valid_values_csv_column_index)
    /\ retries' = retries + 1
    /\ attempts' = attempts + 1
    /\ step_attempts' = step_attempts + 1
    /\ UNCHANGED <<config, pc, outcome, columns, loader_vars, grouper_vars,
                   row_vars, sampled, sink_vars>>

\* Lines 146-147.
MemberExhausted ==
    /\ pc = "member_loop"
    /\ ~LoopContinues(value, member_cfg.validation_regex, retries)
    /\ Exhausted(retries)
    /\ attempts' = attempts + 1
    /\ step_attempts' = step_attempts + 1
    /\ Raise("ValidationExhausted")
    /\ UNCHANGED <<config, columns, loader_vars, grouper_vars, row_vars,
                   chosen_row, value, retries, sampled, sink_vars>>

\* Line 148.
MemberAccept ==
    /\ pc = "member_loop"
    /\ ~LoopContinues(value, member_cfg.validation_regex, retries)
    /\ ~Exhausted(retries)
    /\ attempts' = attempts + 1
    /\ step_attempts' = step_attempts + 1
    /\ row_data' = RowPut(row_data, group_cols[member_i], value)
    /\ member_i' = member_i + 1
    /\ pc' = "member"
    /\ UNCHANGED <<config, outcome, columns, loader_vars, grouper_vars,
                   generated_rows, processed_groups, col_i, grp, chosen_row,
                   value, retries, sampled, sink_vars>>

\* Line 149.
\* (GroupDoneUnmarked: the group is not added to processed_groups.)
GroupDoneUnmarked ==
    /\ pc = "member"
    /\ member_i > Len(group_cols)
    /\ col_i' = col_i + 1
    /\ pc' = "col"
    /\ UNCHANGED <<config, outcome, columns, loader_vars, grouper_vars,
                   generated_rows, row_data, processed_groups, grp, member_i,
                   draw_vars, sink_vars>>
GroupDone ==
    /\ pc = "member"
    /\ member_i > Len(group_cols)
    /\ processed_groups' = processed_groups \cup {grp}
    /\ col_i' = col_i + 1
    /\ pc' = "col"
    /\ UNCHANGED <<config, outcome, columns, loader_vars, grouper_vars,
                   generated_rows, row_data, grp, member_i, draw_vars, sink_vars>>


col == columns[col_i]

col_rows == valid_csv_cache[col.valid_values_csv]

Ungrouped ==
    /\ pc = "col"
    /\ col_i <= Len(columns)
    /\ ~InGroup(col)

\* Lines 152-158: a column with a csv and no group draws its own row.
RefBegin ==
    /\ Ungrouped
    /\ Truthy(col.valid_values_csv)
    /\ \E r \in 1..Len(col_rows) :
          /\ chosen_row' = col_rows[r]
          /\ value' = Cell(col_rows[r], col.valid_values_csv_column_index)
    /\ retries' = 0
    /\ attempts' = 0
    /\ sampled' = TRUE
    /\ pc' = "ref_loop"
    /\ UNCHANGED <<config, outcome, columns, loader_vars, grouper_vars, row_vars,
                   step_attempts, sink_vars>>

\* Lines 159-162.
RefRetry ==
    /\ pc = "ref_loop"
    /\ LoopContinues(value, col.validation_regex, retries)
    /\ \E r \in 1..Len(col_rows) :
          /\ chosen_row' = col_rows[r]
          /\ value' = Cell(col_rows[r], col.valid_values_csv_column_index)
    /\ retries' = retries + 1
    /\ attempts' = attempts + 1
    /\ UNCHANGED <<config, pc, outcome, columns, loader_vars, grouper_vars,
                   row_vars, step_attempts, sampled, sink_vars>>

\* Lines 166-171: a column with a data_type and no csv calls its generator.
SemBegin ==
    /\ Ungrouped
    /\ ~Truthy(col.valid_values_csv)
    /\ Truthy(col.data_type)
    /\ IF col.data_type \notin DOMAIN FakerMethods
       THEN /\ Raise("UnknownGenerator")
            /\ UNCHANGED draw_vars
       ELSE /\ \E v \in FakerMethods[col.data_type] : value' = v
            /\ retries' = 0
            /\ attempts' = 0
            /\ sampled' = TRUE
            /\ pc' = "sem_loop"
            /\ UNCHANGED <<outcome, chosen_row, step_attempts>>
    /\ UNCHANGED <<config, columns, loader_vars, grouper_vars, row_vars, sink_vars>>

\* Lines 172-174.
SemRetry ==
    /\ pc = "sem_loop"
    /\ LoopContinues(value, col.validation_regex, retries)
    /\ \E v \in FakerMethods[col.data_type] : value' = v
    /\ retries' = retries + 1
    /\ attempts' = attempts + 1
    /\ UNCHANGED <<config, pc, outcome, columns, loader_vars, grouper_vars,
                   row_vars, chosen_row, step_attempts, sampled, sink_vars>>

\* Lines 163-164 and 175-176.
ColumnExhausted ==
    /\ pc \in {"ref_loop", "sem_loop"}
    /\ ~LoopContinues(value, col.validation_regex, retries)
    /\ Exhausted(retries)
    /\ attempts' = attempts + 1
    /\ Raise("ValidationExhausted")
    /\ UNCHANGED <<config, columns, loader_vars, grouper_vars, row_vars,
                   chosen_row, value, retries, step_attempts, sampled, sink_vars>>

\* Lines 165 and 177.
ColumnAccept ==
    /\ pc \in {"ref_loop", "sem_loop"}
    /\ ~LoopContinues(value, col.validation_regex, retries)
    /\ ~Exhausted(retries)
    /\ attempts' = attempts + 1
    /\ row_data' = RowPut(row_data, col.name, value)
    /\ col_i' = col_i + 1
    /\ pc' = "col"
    /\ UNCHANGED <<config, outcome, columns, loader_vars, grouper_vars,
                   generated_rows, processed_groups, grp, member_i, chosen_row,
                   value, retries, step_attempts, sampled, sink_vars>>

\* Lines 178-180: neither csv nor data_type.
\* (AssignNoneValidated: None is checked against the column's pattern.)
AssignNoneValidated ==
    /\ Ungrouped
    /\ ~Truthy(col.valid_values_csv)
    /\ ~Truthy(col.data_type)
    /\ IF validate_value(None, col.validation_regex)
       THEN /\ row_data' = RowPut(row_data, col.name, None)
            /\ col_i' = col_i + 1
            /\ UNCHANGED <<pc, outcome>>
       ELSE /\ Raise("ValidationExhausted")
            /\ UNCHANGED <<row_data, col_i>>
    /\ UNCHANGED <<config, columns, loader_vars, grouper_vars, generated_rows,
                   processed_groups, grp, member_i, draw_vars, sink_vars>>
AssignNone ==
    /\ Ungrouped
    /\ ~Truthy(col.valid_values_csv)
    /\ ~Truthy(col.data_type)
    /\ row_data' = RowPut(row_data, col.name, None)
    /\ col_i' = col_i + 1
    /\ UNCHANGED <<config, pc, outcome, columns, loader_vars, grouper_vars,
                   generated_rows, processed_groups, grp, member_i, draw_vars,
                   sink_vars>>

(***************************************************************************)
(* main, lines 297-301, and write_outputs, lines 189-219.                  *)
(***************************************************************************)

\* One destination of the loop over output_files is written, or its write
\* raises and the exception leaves write_outputs and main.
WriteDestination ==
    /\ pc = "write_outputs"
    /\ out_i <= Len(OutputFiles)
    /\ \/ /\ written' = written \cup {OutputFiles[out_i][2]}
          /\ out_i' = out_i + 1
          /\ pc' = pc
       \/ /\ pc' = "write_failed"
          /\ UNCHANGED <<written, out_i>>
    /\ UNCHANGED <<config, outcome, columns, loader_vars, grouper_vars, row_vars,
                   draw_vars, data>>

\* Line 301.
MainDone ==
    /\ pc = "write_outputs"
    /\ out_i > Len(OutputFiles)
    /\ pc' = "done"
    /\ UNCHANGED <<config, outcome, columns, loader_vars, grouper_vars, row_vars,
                   draw_vars, sink_vars>>

Next ==
    \/ SortColumns
    \/ Preload
    \/ PreloadDone
    \/ BuildGraph
    \/ NextNode
    \/ DfsNeighbor
    \/ DfsReturn
    \/ GroupsReturn
    \/ BeginRows
    \/ StartRow
    \/ ReturnRows
    \/ AppendRow
    \/ SkipProcessedGroup
    \/ BeginGroup
    \/ MemberBegin
    \/ MemberRetry
    \/ MemberExhausted
    \/ MemberAccept
    \/ GroupDone
    \/ RefBegin
    \/ RefRetry
    \/ SemBegin
    \/ SemRetry
    \/ ColumnExhausted
    \/ ColumnAccept
    \/ AssignNone
    \/ WriteDestination
    \/ MainDone

Spec == Init /\ [][Next]_vars


(***************************************************************************)
(* Properties of the generated rows.                                       *)
(***************************************************************************)

Returned == outcome = "returned"

\* The members of group g, their configurations and the group's table.
Members(g) == SeqSet(groups[g])

GroupTable(g) ==
    valid_csv_cache[col_config_by_name[groups[g][1]].valid_values_csv]

\* The values of group g in row are the cells of reference row r.
FromRow(row, g, r) ==
    \A name \in Members(g) :
        RowGet(row, name) =
            Cell(GroupTable(g)[r],
                 col_config_by_name[name].valid_values_csv_column_index)

FromOneRow(row, g) == \E r \in 1..Len(GroupTable(g)) : FromRow(row, g, r)

NoPattern(g) ==
    \A name \in Members(g) : col_config_by_name[name].validation_regex = None

\* C1: in every row of a completed run, the values of the members of every
\* dependency group, with or without patterns, are the cells of one single
\* row of the group's reference table.
C1_EveryGroupFromOneRow ==
    Returned =>
        \A i \in 1..Len(data) : \A g \in DOMAIN groups : FromOneRow(data[i], g)

\* C2: in every row of a completed run, the values of the members of a
\* dependency group without patterns are the cells of one single row of
\* the reference table; no cross combination of two rows appears.
C2_PatternlessGroupFromOneRow ==
    Returned =>
        \A i \in 1..Len(data) : \A g \in DOMAIN groups :
            NoPattern(g) => FromOneRow(data[i], g)

\* A completed run of two different rows with a patternless group of two
\* or more columns.
C2_Witness ==
    /\ Returned
    /\ Len(data) >= 2
    /\ data[1] # data[2]
    /\ \E g \in DOMAIN groups : NoPattern(g) /\ Cardinality(Members(g)) >= 2

HasPattern(c) == c.validation_regex # None

HasStrategy(c) == Truthy(c.valid_values_csv) \/ Truthy(c.data_type)

Matches(row, c) == validate_value(RowGet(row, c.name), c.validation_regex)

\* C3 as stated: in every row of a completed run the value of every column
\* that declares a pattern fully matches the pattern.
C3_EveryPatternColumnMatches ==
    Returned =>
        \A i \in 1..Len(data) : \A j \in 1..Len(columns) :
            HasPattern(columns[j]) => Matches(data[i], columns[j])

\* C3 amended: in every row of a completed run the value of every column
\* that declares a pattern and has a csv or a data_type fully matches the
\* pattern; a column with neither is None and is not validated.
C3_GeneratedPatternColumnMatches ==
    Returned =>
        \A i \in 1..Len(data) : \A j \in 1..Len(columns) :
            (HasPattern(columns[j]) /\ HasStrategy(columns[j]))
                => Matches(data[i], columns[j])

\* A completed run with a row in which a group with patterns holds cells of
\* two different reference rows: a member was resolved before a re-draw.
C3_Witness ==
    /\ Returned
    /\ \E i \in 1..Len(data) : \E g \in DOMAIN groups :
          /\ ~FromOneRow(data[i], g)
          /\ \A name \in Members(g) : HasPattern(col_config_by_name[name])

\* No value the column being resolved can draw matches its pattern.
Unsatisfiable ==
    IF InGroup(col)
    THEN \A r \in 1..Len(group_rows) :
            ~validate_value(Cell(group_rows[r],
                                 member_cfg.valid_values_csv_column_index),
                            member_cfg.validation_regex)
    ELSE IF Truthy(col.valid_values_csv)
    THEN \A r \in 1..Len(col_rows) :
            ~validate_value(Cell(col_rows[r], col.valid_values_csv_column_index),
                            col.validation_regex)
    ELSE \A v \in FakerMethods[col.data_type] :
            ~validate_value(v, col.validation_regex)

\* C4: a run that aborts because a column's pattern matches no value that
\* can be drawn has checked exactly 10 candidate values of that column, the
\* first draw included.
C4_ExhaustedAfterTenAttempts ==
    (outcome = "ValidationExhausted" /\ Unsatisfiable) => attempts = MaxRetries

InGroupStep == pc \in {"member", "member_loop"}

\* C5 as stated: while one group-resolution step runs, the candidates it
\* has checked, summed over the members of the group, never exceed 10.
C5_GroupSharesTenAttempts == InGroupStep => step_attempts <= MaxRetries

\* C5 amended: the retry counter restarts at zero for every member of the
\* group, so each member has at most 10 re-draws and 11 candidates of its
\* own, and the step's total is bounded per member, not by 10.
C5_EachMemberOwnRetries ==
    (InGroupStep \/ (outcome = "ValidationExhausted" /\ InGroup(col))) =>
        /\ retries <= MaxRetries
        /\ attempts <= retries + 1
        /\ step_attempts <= (MaxRetries + 1) * member_i

\* A group step that succeeded after more than 10 candidates in total.
C5_Witness ==
    /\ pc = "member"
    /\ member_i > Len(group_cols)
    /\ step_attempts > MaxRetries


DeclaredNames == {config.columns[j].name : j \in 1..Len(config.columns)}

\* C6: a completed run with requested row count N returns exactly N rows,
\* and the keys of every row are exactly the declared column names.
C6_RowCountAndKeys ==
    Returned =>
        /\ Len(data) = num_rows
        /\ \A i \in 1..Len(data) :
              /\ RowKeySet(data[i]) = DeclaredNames
              /\ Len(data[i]) = Cardinality(DeclaredNames)

\* A completed run of two or more rows that resolved a dependency group.
C6_Witness ==
    /\ Returned
    /\ Len(data) >= 2
    /\ DOMAIN groups # {}

PositionOrder ==
    LET sorted == SortedByPosition(config.columns)
    IN  [j \in 1..Len(sorted) |-> sorted[j].name]

\* C7: in every row of a completed run the keys were entered in ascending
\* order of the columns' positions.
C7_KeysInPositionOrder ==
    Returned => \A i \in 1..Len(data) : RowKeys(data[i]) = PositionOrder

\* The file system has no usable table for the column's csv.
BadSource(c) ==
    /\ Truthy(c.valid_values_csv)
    /\ \/ c.valid_values_csv \notin DOMAIN FileSystem
       \/ Len(FileSystem[c.valid_values_csv]) <= 1

SourceError(c) ==
    IF c.valid_values_csv \notin DOMAIN FileSystem
    THEN "SourceNotFound" ELSE "EmptySource"

BadColumns == {j \in 1..Len(config.columns) : BadSource(config.columns[j])}

\* C8: when the csv of some column does not exist or has no data row, the
\* run never gets past the preload: it generates no row, samples no value,
\* and when it ends it has raised the error of such a column.
C8_BadSourceAbortsBeforeRows ==
    BadColumns # {} =>
        /\ pc \in {"generate_data", "preload", "raised"}
        /\ generated_rows = << >> /\ row_data = << >> /\ data = << >>
        /\ ~sampled
        /\ outcome # "returned"
        /\ pc = "raised" =>
              \E j \in BadColumns : outcome = SourceError(config.columns[j])

\* A run of zero rows aborted by the missing csv of the column in the last
\* position, after the earlier columns were preloaded.
C8_Witness ==
    /\ pc = "raised"
    /\ outcome = "SourceNotFound"
    /\ num_rows = 0
    /\ load_i = Len(columns)
    /\ DOMAIN valid_csv_cache # {}

\* C9: a run that exhausted its retries has returned no rows to main, and
\* write_outputs was not called and wrote no destination.
C9_ExhaustionNoPartialOutput ==
    outcome = "ValidationExhausted" =>
        /\ pc = "raised"
        /\ data = << >>
        /\ written = {}
        /\ out_i = 1

\* Retries exhausted in a later row, after a row was completed.
C9_Witness ==
    /\ outcome = "ValidationExhausted"
    /\ Len(generated_rows) >= 1

(***************************************************************************)
(* build_dependency_groups on its own: every link relation over three      *)
(* columns (links to another column, to the column itself, to a name that  *)
(* is no column), the columns listed in every order.                       *)
(***************************************************************************)

Orders == {o \in [1..3 -> Names] : \A i, j \in 1..3 : i # j => o[i] # o[j]}

InitGroups ==
    /\ \E link \in [Names -> Names \cup {None, "z"}], order \in Orders :
          columns = [i \in 1..3 |->
                        Col(order[i], i, None, None, NoIndex, link[order[i]], None)]
    /\ config = [file_size |-> 0, columns |-> columns]
    /\ pc = "build_graph"
    /\ InitRest

NextGroups ==
    \/ BuildGraph
    \/ NextNode
    \/ DfsNeighbor
    \/ DfsReturn
    \/ GroupsReturn

SpecGroups == InitGroups /\ [][NextGroups]_vars

\* The linked_to relation of the configuration, as a set of pairs.
Links ==
    {<<config.columns[j].name, config.columns[j].same_valid_value_row_as_column>> :
        j \in {k \in 1..Len(config.columns) :
                  Truthy(config.columns[k].same_valid_value_row_as_column)}}

LinkedNames == {l[1] : l \in Links} \cup {l[2] : l \in Links}

Adjacent(x, y) == <<x, y>> \in Links \/ <<y, x>> \in Links

\* The names a chain of links, taken in either direction, reaches from S.
RECURSIVE ChainClosure(_)
ChainClosure(S) ==
    LET T == S \cup {y \in LinkedNames : \E x \in S : Adjacent(x, y)}
    IN  IF T = S THEN S ELSE ChainClosure(T)

Connected(x, y) == y \in ChainClosure({x})

\* C10: the groups returned are the connected components of the undirected
\* link graph: every name of a link has a group, and two names have the
\* same group identifier exactly when a chain of links joins them; the
\* relation compared with does not depend on the order of the columns, and
\* the columns are listed in every order.
C10_GroupsAreComponents ==
    pc = "grouped" =>
        /\ DOMAIN col_to_group = LinkedNames
        /\ \A x, y \in LinkedNames :
              (col_to_group[x] = col_to_group[y]) <=> Connected(x, y)

\* a links to b and b links to c, c listed first: one group of three.
C10_Witness ==
    /\ pc = "grouped"
    /\ Links = {<<"a", "b">>, <<"b", "c">>}
    /\ columns[1].name = "c"
    /\ Cardinality(DOMAIN groups) = 1
    /\ Members(0) = {"a", "b", "c"}

\* The places of name in the member lists of groups.
Occurrences(name) ==
    {p \in UNION {{<<g, i>> : i \in 1..Len(groups[g])} : g \in DOMAIN groups} :
        groups[p[1]][p[2]] = name}

\* C19: the two mappings returned describe one partition: every name that
\* declares a link or is named by one occurs exactly once, in exactly one
\* member list; col_to_group maps a name to g exactly when the name is in
\* groups[g]; the identifiers are 0..k-1 without gaps; a column that neither
\* declares nor is named by a link occurs in neither mapping.
C19_MappingsDescribeOnePartition ==
    pc = "grouped" =>
        /\ DOMAIN groups = 0..(group_id - 1)
        /\ \A name \in LinkedNames : Cardinality(Occurrences(name)) = 1
        /\ \A name \in LinkedNames \cup Names : \A g \in DOMAIN groups :
              (name \in DOMAIN col_to_group /\ col_to_group[name] = g)
                  <=> name \in Members(g)
        /\ \A name \in DOMAIN col_to_group : col_to_group[name] \in DOMAIN groups
        /\ \A name \in Names \ LinkedNames :
              /\ name \notin DOMAIN col_to_group
              /\ Occurrences(name) = {}

\* Two groups, one of them of two names, beside a column without links.
C19_Witness ==
    /\ pc = "grouped"
    /\ DOMAIN groups = {0, 1}
    /\ \E g \in DOMAIN groups : Len(groups[g]) = 2
    /\ Names \ LinkedNames # {}

(***************************************************************************)
(* Properties of the sink.                                                 *)
(***************************************************************************)

\* C11: when the write of one destination fails, every other destination of
\* output_files is still written.
C11_OtherDestinationsWritten ==
    pc = "write_failed" =>
        \A j \in 1..Len(OutputFiles) :
            j # out_i => OutputFiles[j][2] \in written

(***************************************************************************)
(* Properties of the row loop.                                             *)
(***************************************************************************)

GroupOf(j) == col_to_group[columns[j].name]

\* The groups of the grouped columns before position index j.
GroupsBefore(j) == {GroupOf(k) : k \in {k \in 1..(j - 1) : InGroup(columns[k])}}

\* Between two columns the marks are the groups of the columns passed; a
\* group step runs for an unmarked group at its first column.
ResolvedMarks ==
    /\ pc = "col" => processed_groups = GroupsBefore(col_i)
    /\ InGroupStep =>
          /\ grp = GroupOf(col_i)
          /\ grp \notin processed_groups
          /\ processed_groups = GroupsBefore(col_i)

\* A later member of a processed group is passed without a draw or a write.
SkipKeepsRow ==
    (/\ pc = "col"
     /\ col_i <= Len(columns)
     /\ InGroup(columns[col_i])
     /\ GroupOf(col_i) \in processed_groups) =>
        /\ pc' = "col"
        /\ col_i' = col_i + 1
        /\ UNCHANGED <<row_data, processed_groups, draw_vars>>

\* The group step ends with every member written and the group marked.
StepResolvesWholeGroup ==
    (pc = "member" /\ pc' = "col") =>
        /\ Members(grp) \subseteq RowKeySet(row_data)
        /\ processed_groups' = processed_groups \cup {grp}

\* A new row starts without marks.
RowStartsUnmarked == (pc = "rows" /\ pc' = "col") => processed_groups' = {}

\* C12: within one row each dependency group is resolved exactly once, as a
\* whole at its first member in position order; its later members are
\* skipped without a new sample, and the marks are cleared at every row start.
C12_GroupResolvedOncePerRow ==
    /\ []ResolvedMarks
    /\ [][SkipKeepsRow /\ StepResolvesWholeGroup /\ RowStartsUnmarked]_vars

\* The last column of a second row was skipped: it belongs to a group that
\* the row resolved at an earlier column.
C12_Witness ==
    /\ pc = "col"
    /\ col_i = Len(columns) + 1
    /\ Len(generated_rows) >= 1
    /\ InGroup(columns[Len(columns)])
    /\ GroupOf(Len(columns)) \in GroupsBefore(Len(columns))

(***************************************************************************)
(* Properties of the reference cache.                                      *)
(***************************************************************************)

\* No path was handed to load_valid_values twice.
LoadedOnce ==
    \A i, j \in 1..Len(load_log) : load_log[i] = load_log[j] => i = j

\* A cached table is the content of its file.
CacheIsFileContent ==
    \A path \in DOMAIN valid_csv_cache :
        /\ path \in SeqSet(load_log)
        /\ valid_csv_cache[path] = SkipHeader(FileSystem[path])

\* No step changes or drops a table of the cache.
CacheEntriesKept ==
    \A path \in DOMAIN valid_csv_cache :
        /\ path \in DOMAIN valid_csv_cache'
        /\ valid_csv_cache'[path] = valid_csv_cache[path]

\* After the preload loop no step touches the cache or loads a file.
GenerationKeepsCache ==
    pc # "preload" => UNCHANGED <<valid_csv_cache, load_log>>

\* C13: each unique reference source is loaded at most once in a run,
\* however many columns name it, and a cached table is never modified after
\* its load: every step of the generation loop leaves the cache unchanged.
C13_SourceLoadedOnceCacheFrozen ==
    /\ [](LoadedOnce /\ CacheIsFileContent)
    /\ [][CacheEntriesKept /\ GenerationKeepsCache]_vars

\* A completed run with rows in which two or more columns name ref_csv,
\* which was loaded once.
C13_Witness ==
    /\ Returned
    /\ Len(data) >= 1
    /\ Cardinality({j \in 1..Len(columns) :
                       columns[j].valid_values_csv = "ref_csv"}) >= 2
    /\ load_log = <<"ref_csv">>

(***************************************************************************)
(* Properties of unconfigured columns.                                     *)
(***************************************************************************)

Unconfigured(c) == ~HasStrategy(c)

\* The configuration of the column whose value is being drawn.
CurrentCfg == IF InGroup(col) THEN member_cfg ELSE col

InRetryLoop == pc \in {"member_loop", "ref_loop", "sem_loop"}

\* Every value written for an unconfigured column is None.
UnconfiguredIsNone(rows) ==
    \A i \in 1..Len(rows) : \A j \in 1..Len(columns) :
        (Unconfigured(columns[j]) /\ columns[j].name \in RowKeySet(rows[i]))
            => RowGet(rows[i], columns[j].name) = None

\* The step of an unconfigured column outside a group writes None and calls
\* neither validate_value nor a generator.
UnconfiguredStep ==
    (/\ pc = "col"
     /\ col_i <= Len(columns)
     /\ ~InGroup(columns[col_i])
     /\ Unconfigured(columns[col_i])) =>
        /\ row_data' = RowPut(row_data, columns[col_i].name, None)
        /\ pc' = "col"
        /\ UNCHANGED <<outcome, draw_vars>>

\* C14: a column with no reference source and no data type is None in every
\* generated row, is never validated, also when it declares a pattern, and
\* never causes a retry or an exhaustion error.
C14_UnconfiguredColumnIsNone ==
    /\ [](/\ UnconfiguredIsNone(generated_rows)
          /\ UnconfiguredIsNone(<<row_data>>)
          /\ Returned => UnconfiguredIsNone(data)
          /\ InRetryLoop => HasStrategy(CurrentCfg)
          /\ outcome = "ValidationExhausted" => HasStrategy(CurrentCfg))
    /\ [][UnconfiguredStep]_vars

\* A completed run with rows and an unconfigured column that declares a
\* pattern which None does not match.
C14_Witness ==
    /\ Returned
    /\ Len(data) >= 1
    /\ \E j \in 1..Len(columns) :
          /\ Unconfigured(columns[j])
          /\ HasPattern(columns[j])
          /\ ~Matches(data[1], columns[j])

(***************************************************************************)
(* Properties of the group source check.                                   *)
(***************************************************************************)

\* The csv files named by the members of group g that are declared columns.
DeclaredSources(g) ==
    {col_config_by_name[name].valid_values_csv :
        name \in Members(g) \cap DOMAIN col_config_by_name}

Inconsistent(g) == Cardinality(DeclaredSources(g)) # 1

\* The row loop stands at the first column of a group whose member columns
\* name different csv files.
ReachesInconsistentGroup ==
    /\ pc = "col"
    /\ col_i <= Len(columns)
    /\ InGroup(columns[col_i])
    /\ GroupOf(col_i) \notin processed_groups
    /\ Inconsistent(GroupOf(col_i))

\* C15: whenever resolution reaches a dependency group whose member columns
\* do not all declare the identical csv, the run fails with
\* InconsistentGroupSource before any row is sampled for the group, and no
\* value of a member of such a group is ever written to a row.
C15_InconsistentGroupRaises ==
    /\ [](InGroupStep => ~Inconsistent(grp))
    /\ [][ReachesInconsistentGroup =>
             /\ outcome' = "InconsistentGroupSource"
             /\ pc' = "raised"
             /\ UNCHANGED <<chosen_row, sampled, row_data>>]_vars

(***************************************************************************)
(* Termination of generate_data.                                           *)
(***************************************************************************)

\* generate_data has returned or raised.
Finished == outcome # "running"

NumColumns == Len(config.columns)

\* Steps one group member, one column and one row can take at most.
MemberCost == MaxRetries + 2

ColCost == 2 + MemberCost * NumColumns

RowCost == NumColumns * ColCost + 2

RowsLeft == num_rows - Len(generated_rows)

\* Steps left at the head of the row loop, at the head of the column loop,
\* and after the current column.
RowsWork == RowsLeft * RowCost + 1

ColWork == (RowsLeft - 1) * RowCost + 2 + (NumColumns - col_i + 1) * ColCost

AfterCol == ColWork - ColCost

\* Steps left in build_dependency_groups: a node not yet visited is entered,
\* loops over its neighbours and returns; an open call finishes its loop
\* and returns; the outer loop passes the keys left.
RECURSIVE UnvisitedWork(_)
UnvisitedWork(nodes) ==
    IF nodes = {} THEN 0
    ELSE LET u == CHOOSE x \in nodes : TRUE
         IN  Cardinality(graph[u]) + 2 + UnvisitedWork(nodes \ {u})

RECURSIVE StackWork(_)
StackWork(n) ==
    IF n = 0 THEN 0
    ELSE Cardinality(dfs_stack[n].todo) + 1 + StackWork(n - 1)

GraphWork ==
    UnvisitedWork((DOMAIN graph) \ visited) + StackWork(Len(dfs_stack))
        + (Len(graph_keys) - node_i + 1) + 1

\* The largest GraphWork of a graph of NumColumns columns: at most two
\* nodes a column, each with at most all nodes as neighbours.
GraphMax == (2 * NumColumns) * (2 * NumColumns + 2) + 2 * NumColumns + 1

GroupedWork == num_rows * RowCost + 2

BuildWork == GroupedWork + GraphMax + 1

\* A bound on the steps generate_data still takes.
Variant ==
    IF Finished THEN 0
    ELSE CASE pc = "generate_data" -> BuildWork + NumColumns + 2
           [] pc = "preload"       -> BuildWork + 1 + (NumColumns - load_i + 1)
           [] pc = "build_graph"   -> BuildWork
           [] pc \in {"components", "dfs"} -> GroupedWork + GraphWork
           [] pc = "grouped"       -> GroupedWork
           [] pc = "rows"          -> RowsWork
           [] pc = "col"           -> ColWork
           [] pc = "member"        ->
                AfterCol + 1 + (Len(group_cols) - member_i + 1) * MemberCost
           [] pc = "member_loop"   ->
                AfterCol + 1 + (Len(group_cols) - member_i) * MemberCost
                    + 1 + (MaxRetries - retries)
           [] pc \in {"ref_loop", "sem_loop"} ->
                AfterCol + 1 + (MaxRetries - retries)

\* The program has a next step to take. BuildGraph has no condition but its
\* place in the program.
CanStep == pc = "build_graph" \/ ENABLED Next

\* C16: every run of generate_data with a finite row count and a finite
\* column list terminates, whatever the random source and the generators
\* return: until it has returned or raised it can always take a step, every
\* step lowers a natural number, a return delivers all requested rows and
\* no retry loop passes its ceiling.
C16_GenerateDataTerminates ==
    /\ [](Variant \in Nat)
    /\ [](~Finished => CanStep)
    /\ [][~Finished => Variant' < Variant]_vars
    /\ [](Returned => Len(data) = num_rows)
    /\ [](InRetryLoop => retries <= MaxRetries)

\* A completed run of the largest row count with a dependency group, whose
\* last retry loop went round more than once.
C16_Witness ==
    /\ Returned
    /\ Len(data) = MaxRows
    /\ DOMAIN groups # {}
    /\ attempts >= 2

(***************************************************************************)
(* Properties of the retry loops.                                          *)
(***************************************************************************)

\* C17: the exhaustion error is raised only if every candidate drawn for
\* the column in that step failed its pattern; a candidate that fully
\* matches is accepted, whichever draw or re-draw within the ceiling
\* produced it. Here for the last candidate drawn.
C17_ExhaustedOnlyIfLastCandidateFails ==
    outcome = "ValidationExhausted" =>
        ~validate_value(value, CurrentCfg.validation_regex)

\* The cell of the shared row that the current member reads.
MemberCell(row) == Cell(row, member_cfg.valid_values_csv_column_index)

\* A re-draw inside a group step: the row changes for the current member
\* only; the values written for the earlier members stay.
RedrawKeepsWritten ==
    (pc = "member_loop" /\ pc' = "member_loop") =>
        /\ UNCHANGED <<row_data, member_i, grp, processed_groups>>
        /\ value' = MemberCell(chosen_row')

\* The next member starts from the row the step holds now, without a draw.
MemberStartsFromSharedRow ==
    (pc = "member" /\ pc' = "member_loop") =>
        /\ UNCHANGED <<chosen_row, row_data, member_i>>
        /\ value' = MemberCell(chosen_row)

\* Accepting a member writes its own key and no other.
AcceptWritesOwnKey ==
    (pc = "member_loop" /\ pc' = "member") =>
        /\ UNCHANGED chosen_row
        /\ RowGet(row_data', group_cols[member_i]) = value
        /\ \A key \in RowKeySet(row_data) \ {group_cols[member_i]} :
              RowGet(row_data', key) = RowGet(row_data, key)

\* C18: during one group step, a re-draw of the shared row triggered by a
\* member that failed validation leaves the values already written for the
\* members before it unchanged; only the failing member is checked against
\* the new row, and the members after it take their first candidate from
\* the re-drawn row.
C18_RedrawKeepsEarlierMembers ==
    /\ [](pc = "member_loop" => value = MemberCell(chosen_row))
    /\ [][/\ RedrawKeepsWritten
          /\ MemberStartsFromSharedRow
          /\ AcceptWritesOwnKey]_vars

\* A later member has re-drawn the row: the value written for an earlier
\* member is no longer the cell of the row the step holds.
C18_Witness ==
    /\ pc = "member_loop"
    /\ retries >= 1
    /\ member_i >= 2
    /\ \E k \in 1..(member_i - 1) :
          RowGet(row_data, group_cols[k]) #
              Cell(chosen_row,
                   col_config_by_name[group_cols[k]].valid_values_csv_column_index)

====
